---------------------------- MODULE Spec2Model ----------------------------
(***************************************************************************)
(* Model of the argh command-line argument classifier, v0.3.2              *)
(* (src/unnamed/part_002, with positional_arg from                         *)
(* src/src/argh/positional_arg.cc).                                        *)
(*                                                                         *)
(* A std::string is a sequence of one-character strings; "" is << >>.      *)
(* The constructor's loop is one ParseArgument step per argv element; the  *)
(* public operations are actions enabled once the constructor returned.    *)
(***************************************************************************)
EXTENDS Integers, Sequences, FiniteSets, TLC

VARIABLES
    argv,                  \* the constructor's argv parameter
    i,                     \* the constructor's loop index (1-based)
    args,                  \* argh::args
    flags,                 \* argh::flags
    parameters,            \* argh::parameters, a map as a function on its keys
    positional_arguments,  \* argh::positional_arguments, records [owner, value]
    double_dash_set,       \* argh::double_dash_set
    last_flag,             \* argh::last_flag
    op_name,               \* the public operation called last ("" before any)
    op_arg,                \* its std::string argument
    op_index,              \* its int argument
    ret_str,               \* its std::string result
    ret_bool,              \* its bool result
    ret_int,               \* its int result
    scanned,               \* history: positional_arguments as the scan left it
    marked                 \* history: names passed to mark_parameter/operator()

vars == <<argv, i, args, flags, parameters, positional_arguments,
          double_dash_set, last_flag, op_name, op_arg, op_index,
          ret_str, ret_bool, ret_int, scanned, marked>>

(***************************************************************************)
(* Bounds and input alphabets.                                             *)
(***************************************************************************)
\* Longest argv of the marking specification Spec.
MaxArgc == 4

\* Longest argv of the '='-joined specification SpecEq.
MaxArgcEq == 3

\* Longest argv of the terminator specification SpecTerm.
MaxArgcTerm == 4

\* Longest argv of the char *argv[] specification SpecPtr.
MaxArgcPtr == 3

\* Longest argv of the cluster specification SpecCluster.
MaxArgcCluster == 3

\* Longest argv of the dash specification SpecDash.
MaxArgcDash == 3

EMPTY == << >>

TokTest == <<"t">>
TokA == <<"a">>
TokO == <<"-", "o">>
TokV == <<"-", "v">>
TokVO == <<"-", "v", "o">>
TokOut == <<"-", "-", "o">>
TokOutEqA == <<"-", "-", "o", "=", "a">>
TokOEqAEqT == <<"-", "o", "=", "a", "=", "t">>
TokOutEq == <<"-", "-", "o", "=">>
TokAEqT == <<"a", "=", "t">>
TokDash == <<"-">>
TokDashDash == <<"-", "-">>
TokOVO == <<"-", "o", "v", "o">>
TokLongVO == <<"-", "-", "v", "o">>
TokVDash == <<"-", "v", "-">>
TokDashDashEqT == <<"-", "-", "=", "t">>
TokDashDashDash == <<"-", "-", "-">>

\* argv elements of Spec: bare tokens, a short option, a cluster, a long option.
Tokens == {TokTest, TokA, TokO, TokVO, TokOut}

\* argv elements of SpecEq: '='-joined options, plain options, bare tokens
\* with and without '='.
TokensEq ==
    {TokTest, TokAEqT, TokO, TokOut, TokOutEqA, TokOEqAEqT, TokOutEq}

\* argv elements of SpecTerm: the empty token, the single dash and the
\* terminator next to a bare token and an option.
TokensTerm == {EMPTY, TokDash, TokDashDash, TokTest, TokO}

\* argv elements of SpecPtr: a program name or bare token, options.
TokensPtr == {TokTest, TokA, TokO, TokVO, TokOut}

\* argv elements of SpecCluster: clusters, one with a repeated letter and
\* one with a dash among its characters, a single letter and a long option
\* spelled like a cluster.
TokensCluster == {TokTest, TokV, TokVO, TokOVO, TokVDash, TokLongVO}

\* argv elements of SpecDash: the terminator and the tokens that contain or
\* begin with two dashes without being it, next to a bare token and an
\* option.
TokensDash ==
    {TokDashDash, TokDashDashEqT, TokDashDashDash, TokVDash, TokTest, TokO}

\* Names the callers pass to operator[](string), operator() and mark_parameter.
Names == {TokO, TokV, TokOut, EMPTY}

\* Indexes the callers pass to operator[](int).
Indexes == (-1) .. (MaxArgc + 1)

SeqsUpTo(T, n) == UNION {[1 .. k -> T] : k \in 0 .. n}

(***************************************************************************)
(* std::string helpers.                                                    *)
(***************************************************************************)
\* arg.find(c): the first index holding c, 0 for npos.
Find(arg, c) ==
    IF \E k \in 1 .. Len(arg) : arg[k] = c
    THEN CHOOSE k \in 1 .. Len(arg) :
             arg[k] = c /\ \A m \in 1 .. (k - 1) : arg[m] # c
    ELSE 0

\* map.insert({key, value}), which keeps the value of a key already there
MapInsert(map, key, value) ==
    [k \in (DOMAIN map) \cup {key} |->
        IF k \in DOMAIN map THEN map[k] ELSE value]

\* map[key] = value
MapPut(map, key, value) ==
    [k \in (DOMAIN map) \cup {key} |-> IF k = key THEN value ELSE map[k]]

NoOwner(value) == [owner |-> EMPTY, value |-> value]

Owned(owner, value) == [owner |-> owner, value |-> value]

is_flag(arg) ==
    IF Len(arg) < 2 THEN FALSE
    ELSE IF arg = <<"-", "-">> THEN FALSE
    ELSE arg[1] = "-"

(***************************************************************************)
(* The scan.  s is the object: [args, flags, parameters,                   *)
(* positional_arguments, double_dash_set, last_flag].                      *)
(***************************************************************************)
initialize ==
    [args |-> << >>, flags |-> {}, parameters |-> << >>,
     positional_arguments |-> << >>, double_dash_set |-> FALSE,
     last_flag |-> EMPTY]

\* A cluster loop in which the first character keeps last_flag.
RECURSIVE cluster_loop_first(_, _, _)
cluster_loop_first(s, arg, k) ==
    IF k > Len(arg) THEN s
    ELSE LET flag == <<"-">> \o SubSeq(arg, k, k)
         IN cluster_loop_first(
                [s EXCEPT !.flags = @ \cup {flag},
                          !.last_flag = IF k = 2 THEN flag ELSE @],
                arg, k + 1)

\* A cluster loop that records the whole token as one flag.
cluster_loop_whole(s, arg, k) ==
    [s EXCEPT !.flags = @ \cup {arg}, !.last_flag = arg]

\* The cluster loop: every character after the dash is a flag, and the
\* last one is left in last_flag.
RECURSIVE cluster_loop(_, _, _)
cluster_loop(s, arg, k) ==
    IF k > Len(arg) THEN s
    ELSE LET flag == <<"-">> \o SubSeq(arg, k, k)
         IN cluster_loop([s EXCEPT !.flags = @ \cup {flag},
                                   !.last_flag = flag], arg, k + 1)

\* arg.rfind(c): the last index holding c, 0 for npos.
RFind(arg, c) ==
    IF \E k \in 1 .. Len(arg) : arg[k] = c
    THEN CHOOSE k \in 1 .. Len(arg) :
             arg[k] = c /\ \A m \in (k + 1) .. Len(arg) : arg[m] # c
    ELSE 0

\* A parse_flag that splits a joined token at its last '='.
parse_flag_rfind(s, arg) ==
    IF Find(arg, "=") # 0
    THEN LET key == SubSeq(arg, 1, RFind(arg, "=") - 1)
             value == SubSeq(arg, RFind(arg, "=") + 1, Len(arg))
         IN [s EXCEPT !.parameters = MapPut(@, key, value),
                      !.flags = @ \cup {key},
                      !.args = Append(@, arg),
                      !.last_flag = EMPTY]
    ELSE IF Len(arg) >= 2 /\ SubSeq(arg, 1, 2) = <<"-", "-">>
    THEN [s EXCEPT !.flags = @ \cup {arg},
                   !.args = Append(@, arg),
                   !.last_flag = arg]
    ELSE [cluster_loop(s, arg, 2) EXCEPT !.args = Append(@, arg)]

\* A parse_flag whose joined token still awaits a value.
parse_flag_eq_awaits(s, arg) ==
    IF Find(arg, "=") # 0
    THEN LET key == SubSeq(arg, 1, Find(arg, "=") - 1)
             value == SubSeq(arg, Find(arg, "=") + 1, Len(arg))
         IN [s EXCEPT !.parameters = MapPut(@, key, value),
                      !.flags = @ \cup {key},
                      !.args = Append(@, arg),
                      !.last_flag = key]
    ELSE IF Len(arg) >= 2 /\ SubSeq(arg, 1, 2) = <<"-", "-">>
    THEN [s EXCEPT !.flags = @ \cup {arg},
                   !.args = Append(@, arg),
                   !.last_flag = arg]
    ELSE [cluster_loop(s, arg, 2) EXCEPT !.args = Append(@, arg)]

\* A parse_flag whose long option does not await a value.
parse_flag_long_no_await(s, arg) ==
    IF Find(arg, "=") # 0
    THEN LET key == SubSeq(arg, 1, Find(arg, "=") - 1)
             value == SubSeq(arg, Find(arg, "=") + 1, Len(arg))
         IN [s EXCEPT !.parameters = MapPut(@, key, value),
                      !.flags = @ \cup {key},
                      !.args = Append(@, arg),
                      !.last_flag = EMPTY]
    ELSE IF Len(arg) >= 2 /\ SubSeq(arg, 1, 2) = <<"-", "-">>
    THEN [s EXCEPT !.flags = @ \cup {arg},
                   !.args = Append(@, arg)]
    ELSE [cluster_loop(s, arg, 2) EXCEPT !.args = Append(@, arg)]

\* A parse_flag that stores the value of a joined token without recording
\* its name as a flag.
parse_flag_eq_no_flag(s, arg) ==
    IF Find(arg, "=") # 0
    THEN LET key == SubSeq(arg, 1, Find(arg, "=") - 1)
             value == SubSeq(arg, Find(arg, "=") + 1, Len(arg))
         IN [s EXCEPT !.parameters = MapPut(@, key, value),
                      !.args = Append(@, arg),
                      !.last_flag = EMPTY]
    ELSE IF Len(arg) >= 2 /\ SubSeq(arg, 1, 2) = <<"-", "-">>
    THEN [s EXCEPT !.flags = @ \cup {arg},
                   !.args = Append(@, arg),
                   !.last_flag = arg]
    ELSE [cluster_loop(s, arg, 2) EXCEPT !.args = Append(@, arg)]

\* A parse_flag in which an option still awaiting its value keeps waiting.
parse_flag_keeps_earlier(s, arg) ==
    IF Find(arg, "=") # 0
    THEN LET key == SubSeq(arg, 1, Find(arg, "=") - 1)
             value == SubSeq(arg, Find(arg, "=") + 1, Len(arg))
         IN [s EXCEPT !.parameters = MapPut(@, key, value),
                      !.flags = @ \cup {key},
                      !.args = Append(@, arg),
                      !.last_flag = EMPTY]
    ELSE IF Len(arg) >= 2 /\ SubSeq(arg, 1, 2) = <<"-", "-">>
    THEN [s EXCEPT !.flags = @ \cup {arg},
                   !.args = Append(@, arg),
                   !.last_flag = IF Len(@) > 0 THEN @ ELSE arg]
    ELSE [cluster_loop(s, arg, 2) EXCEPT
             !.args = Append(@, arg),
             !.last_flag = IF Len(s.last_flag) > 0 THEN s.last_flag ELSE @]

parse_flag(s, arg) ==
    IF Find(arg, "=") # 0
    THEN LET key == SubSeq(arg, 1, Find(arg, "=") - 1)
             value == SubSeq(arg, Find(arg, "=") + 1, Len(arg))
         IN [s EXCEPT !.parameters = MapPut(@, key, value),
                      !.flags = @ \cup {key},
                      !.args = Append(@, arg),
                      !.last_flag = EMPTY]
    ELSE IF Len(arg) >= 2 /\ SubSeq(arg, 1, 2) = <<"-", "-">>
    THEN [s EXCEPT !.flags = @ \cup {arg},
                   !.args = Append(@, arg),
                   !.last_flag = arg]
    ELSE [cluster_loop(s, arg, 2) EXCEPT !.args = Append(@, arg)]

\* A parse_positional_argument that leaves the option waiting for more.
parse_positional_argument_keep(s, arg) ==
    LET t == IF Len(s.last_flag) > 0
             THEN [s EXCEPT
                      !.parameters = MapPut(@, s.last_flag, arg),
                      !.positional_arguments =
                          Append(@, Owned(s.last_flag, arg))]
             ELSE [s EXCEPT
                      !.positional_arguments = Append(@, NoOwner(arg))]
    IN [t EXCEPT !.args = Append(@, arg)]

parse_positional_argument(s, arg) ==
    LET t == IF Len(s.last_flag) > 0
             THEN [s EXCEPT
                      !.parameters = MapPut(@, s.last_flag, arg),
                      !.positional_arguments =
                          Append(@, Owned(s.last_flag, arg))]
             ELSE [s EXCEPT
                      !.positional_arguments = Append(@, NoOwner(arg))]
    IN [t EXCEPT !.last_flag = EMPTY, !.args = Append(@, arg)]

\* A parse_argument that takes every token beginning with "--" for the
\* terminator.
parse_argument_prefix_terminator(s, arg) ==
    IF Len(arg) = 0 THEN s
    ELSE IF s.double_dash_set
    THEN [s EXCEPT !.args = Append(@, arg),
                   !.positional_arguments = Append(@, NoOwner(arg))]
    ELSE IF arg = <<"-">>
    THEN [parse_positional_argument(s, arg) EXCEPT !.last_flag = EMPTY]
    ELSE IF Len(arg) >= 2 /\ SubSeq(arg, 1, 2) = <<"-", "-">>
    THEN [s EXCEPT !.args = Append(@, arg),
                   !.double_dash_set = TRUE,
                   !.last_flag = EMPTY]
    ELSE IF is_flag(arg) THEN parse_flag(s, arg)
    ELSE parse_positional_argument(s, arg)

\* A parse_argument that tests for "--" before it tests double_dash_set.
parse_argument_every_terminator(s, arg) ==
    IF Len(arg) = 0 THEN s
    ELSE IF arg = <<"-", "-">>
    THEN [s EXCEPT !.args = Append(@, arg),
                   !.double_dash_set = TRUE,
                   !.last_flag = EMPTY]
    ELSE IF s.double_dash_set
    THEN [s EXCEPT !.args = Append(@, arg),
                   !.positional_arguments = Append(@, NoOwner(arg))]
    ELSE IF arg = <<"-">>
    THEN [parse_positional_argument(s, arg) EXCEPT !.last_flag = EMPTY]
    ELSE IF is_flag(arg) THEN parse_flag(s, arg)
    ELSE parse_positional_argument(s, arg)

\* A parse_argument in which an empty token ends the wait for a value.
parse_argument_empty_clears(s, arg) ==
    IF Len(arg) = 0 THEN [s EXCEPT !.last_flag = EMPTY]
    ELSE IF s.double_dash_set
    THEN [s EXCEPT !.args = Append(@, arg),
                   !.positional_arguments = Append(@, NoOwner(arg))]
    ELSE IF arg = <<"-">>
    THEN [parse_positional_argument(s, arg) EXCEPT !.last_flag = EMPTY]
    ELSE IF arg = <<"-", "-">>
    THEN [s EXCEPT !.args = Append(@, arg),
                   !.double_dash_set = TRUE,
                   !.last_flag = EMPTY]
    ELSE IF is_flag(arg) THEN parse_flag(s, arg)
    ELSE parse_positional_argument(s, arg)

\* A parse_argument that records the terminator itself as a candidate.
parse_argument_term_positional(s, arg) ==
    IF Len(arg) = 0 THEN s
    ELSE IF s.double_dash_set
    THEN [s EXCEPT !.args = Append(@, arg),
                   !.positional_arguments = Append(@, NoOwner(arg))]
    ELSE IF arg = <<"-">>
    THEN [parse_positional_argument(s, arg) EXCEPT !.last_flag = EMPTY]
    ELSE IF arg = <<"-", "-">>
    THEN [s EXCEPT !.args = Append(@, arg),
                   !.positional_arguments = Append(@, NoOwner(arg)),
                   !.double_dash_set = TRUE,
                   !.last_flag = EMPTY]
    ELSE IF is_flag(arg) THEN parse_flag(s, arg)
    ELSE parse_positional_argument(s, arg)

\* A parse_argument that tests is_flag before double_dash_set.
parse_argument_flag_first(s, arg) ==
    IF Len(arg) = 0 THEN s
    ELSE IF is_flag(arg) THEN parse_flag(s, arg)
    ELSE IF s.double_dash_set
    THEN [s EXCEPT !.args = Append(@, arg),
                   !.positional_arguments = Append(@, NoOwner(arg))]
    ELSE IF arg = <<"-">>
    THEN [parse_positional_argument(s, arg) EXCEPT !.last_flag = EMPTY]
    ELSE IF arg = <<"-", "-">>
    THEN [s EXCEPT !.args = Append(@, arg),
                   !.double_dash_set = TRUE,
                   !.last_flag = EMPTY]
    ELSE parse_positional_argument(s, arg)

parse_argument(s, arg) ==
    IF Len(arg) = 0 THEN s
    ELSE IF s.double_dash_set
    THEN [s EXCEPT !.args = Append(@, arg),
                   !.positional_arguments = Append(@, NoOwner(arg))]
    ELSE IF arg = <<"-">>
    THEN [parse_positional_argument(s, arg) EXCEPT !.last_flag = EMPTY]
    ELSE IF arg = <<"-", "-">>
    THEN [s EXCEPT !.args = Append(@, arg),
                   !.double_dash_set = TRUE,
                   !.last_flag = EMPTY]
    ELSE IF is_flag(arg) THEN parse_flag(s, arg)
    ELSE parse_positional_argument(s, arg)

\* The constructor's loop from argv[k - 1] on, as one function of argv.
RECURSIVE parse_from(_, _, _)
parse_from(s, av, k) ==
    IF k > Len(av) THEN s
    ELSE parse_from(parse_argument(s, av[k]), av, k + 1)

\* argh::argh(int argc, std::string argv[])
Construct(av) == parse_from(initialize, av, 1)

(***************************************************************************)
(* The public operations.                                                  *)
(***************************************************************************)
\* Index of the first entry owned by arg, 0 when the loop finds none.
FirstOwned(pos, arg) ==
    IF \E k \in 1 .. Len(pos) : pos[k].owner = arg
    THEN CHOOSE k \in 1 .. Len(pos) :
             pos[k].owner = arg /\ \A m \in 1 .. (k - 1) : pos[m].owner # arg
    ELSE 0

\* vector::erase(begin() + k)
Erase(pos, k) == SubSeq(pos, 1, k - 1) \o SubSeq(pos, k + 1, Len(pos))

\* A mark_parameter that erases the first owned entry and stops.
mark_parameter_once(pos, arg) ==
    IF FirstOwned(pos, arg) = 0 THEN pos
    ELSE Erase(pos, FirstOwned(pos, arg))

\* A mark_parameter whose loop goes on at i + 1 after an erase.
RECURSIVE skip_loop(_, _, _)
skip_loop(pos, arg, k) ==
    IF k > Len(pos) THEN pos
    ELSE IF pos[k].owner = arg THEN skip_loop(Erase(pos, k), arg, k + 1)
    ELSE skip_loop(pos, arg, k + 1)

mark_parameter_skip(pos, arg) == skip_loop(pos, arg, 1)

\* A mark_parameter that erases from the first owned entry to the end.
mark_parameter_tail(pos, arg) ==
    IF FirstOwned(pos, arg) = 0 THEN pos
    ELSE SubSeq(pos, 1, FirstOwned(pos, arg) - 1)

\* mark_parameter: erase the first entry owned by arg, then call itself.
RECURSIVE mark_parameter(_, _)
mark_parameter(pos, arg) ==
    IF FirstOwned(pos, arg) = 0 THEN pos
    ELSE mark_parameter(Erase(pos, FirstOwned(pos, arg)), arg)

\* Activations of a mark_parameter that erases and calls itself for every
\* entry, owned by arg or not.
RECURSIVE mark_parameter_calls_every(_, _)
mark_parameter_calls_every(pos, arg) ==
    IF Len(pos) = 0 THEN 1
    ELSE 1 + mark_parameter_calls_every(Erase(pos, 1), arg)

\* The number of activations of mark_parameter that one call from outside
\* makes: itself, and those of the call it makes after an erase.
RECURSIVE mark_parameter_calls(_, _)
mark_parameter_calls(pos, arg) ==
    IF FirstOwned(pos, arg) = 0 THEN 1
    ELSE 1 + mark_parameter_calls(Erase(pos, FirstOwned(pos, arg)), arg)

\* operator[](std::string): flags.count(name)
operator_flag(fl, name) == name \in fl

\* operator()(std::string), the value returned
operator_param(params, name) ==
    IF name \in DOMAIN params THEN params[name] ELSE EMPTY

\* An operator() that reads parameters[name] without the count() test.
operator_param_map_insert(params, name) ==
    IF name \in DOMAIN params THEN params ELSE MapPut(params, name, EMPTY)

\* An operator() that moves the value out of the map.
operator_param_map_erase(params, name) ==
    [k \in (DOMAIN params) \ {name} |-> params[k]]

\* operator()(std::string), the map it leaves behind
operator_param_map(params, name) == params

\* An operator[](int) that counts from 1.
operator_index_from_one(pos, index) ==
    IF index >= 1 /\ index <= Len(pos) THEN pos[index].value ELSE EMPTY

\* operator[](int): the cast to unsigned makes a negative index out of range
operator_index(pos, index) ==
    IF index >= 0 /\ index < Len(pos) THEN pos[index + 1].value ELSE EMPTY

size(pos) == Len(pos)

(***************************************************************************)
(* State machine.                                                          *)
(***************************************************************************)
Constructed == i > Len(argv)

\* The state before the first iteration of a constructor whose loop starts
\* at argv[first - 1].
InitFrom(T, n, first) ==
    /\ argv \in SeqsUpTo(T, n)
    /\ i = first
    /\ args = initialize.args
    /\ flags = initialize.flags
    /\ parameters = initialize.parameters
    /\ positional_arguments = initialize.positional_arguments
    /\ double_dash_set = initialize.double_dash_set
    /\ last_flag = initialize.last_flag
    /\ op_name = ""
    /\ op_arg = EMPTY
    /\ op_index = 0
    /\ ret_str = EMPTY
    /\ ret_bool = FALSE
    /\ ret_int = 0
    /\ scanned = << >>
    /\ marked = {}

\* The state before the std::string[] constructor's first iteration.
InitWith(T, n) == InitFrom(T, n, 1)

\* The state before the char *argv[] constructor's first iteration.
InitCharPtr(T, n) == InitFrom(T, n, 2)

Init == InitWith(Tokens, MaxArgc)

InitEq == InitWith(TokensEq, MaxArgcEq)

InitTerm == InitWith(TokensTerm, MaxArgcTerm)

InitPtr == InitCharPtr(TokensPtr, MaxArgcPtr)

InitCluster == InitWith(TokensCluster, MaxArgcCluster)

InitDash == InitWith(TokensDash, MaxArgcDash)

Object ==
    [args |-> args, flags |-> flags, parameters |-> parameters,
     positional_arguments |-> positional_arguments,
     double_dash_set |-> double_dash_set, last_flag |-> last_flag]

\* One iteration of the constructor's loop.
ParseArgument ==
    /\ i <= Len(argv)
    /\ LET s == parse_argument(Object, argv[i])
       IN /\ args' = s.args
          /\ flags' = s.flags
          /\ parameters' = s.parameters
          /\ positional_arguments' = s.positional_arguments
          /\ double_dash_set' = s.double_dash_set
          /\ last_flag' = s.last_flag
          /\ scanned' = s.positional_arguments
    /\ i' = i + 1
    /\ UNCHANGED <<argv, op_name, op_arg, op_index, ret_str, ret_bool,
                   ret_int, marked>>

MarkParameter ==
    /\ Constructed
    /\ \E arg \in Names :
          /\ positional_arguments' = mark_parameter(positional_arguments, arg)
          /\ op_name' = "mark_parameter"
          /\ op_arg' = arg
          /\ marked' = marked \cup {arg}
    /\ op_index' = 0
    /\ ret_str' = EMPTY
    /\ ret_bool' = FALSE
    /\ ret_int' = 0
    /\ UNCHANGED <<argv, i, args, flags, parameters, double_dash_set,
                   last_flag, scanned>>

GetParameter ==
    /\ Constructed
    /\ \E name \in Names :
          /\ positional_arguments' = mark_parameter(positional_arguments, name)
          /\ parameters' = operator_param_map(parameters, name)
          /\ ret_str' = operator_param(parameters, name)
          /\ op_name' = "operator()"
          /\ op_arg' = name
          /\ marked' = marked \cup {name}
    /\ op_index' = 0
    /\ ret_bool' = FALSE
    /\ ret_int' = 0
    /\ UNCHANGED <<argv, i, args, flags, double_dash_set, last_flag, scanned>>

\* An operator[](std::string) that marks the name it is asked about.
HasFlagMarking ==
    /\ Constructed
    /\ \E name \in Names :
          /\ ret_bool' = operator_flag(flags, name)
          /\ positional_arguments' = mark_parameter(positional_arguments, name)
          /\ op_name' = "operator[](string)"
          /\ op_arg' = name
    /\ op_index' = 0
    /\ ret_str' = EMPTY
    /\ ret_int' = 0
    /\ UNCHANGED <<argv, i, args, flags, parameters, double_dash_set,
                   last_flag, scanned, marked>>

HasFlag ==
    /\ Constructed
    /\ \E name \in Names :
          /\ ret_bool' = operator_flag(flags, name)
          /\ op_name' = "operator[](string)"
          /\ op_arg' = name
    /\ op_index' = 0
    /\ ret_str' = EMPTY
    /\ ret_int' = 0
    /\ UNCHANGED <<argv, i, args, flags, parameters, positional_arguments,
                   double_dash_set, last_flag, scanned, marked>>

PositionalAt ==
    /\ Constructed
    /\ \E index \in Indexes :
          /\ ret_str' = operator_index(positional_arguments, index)
          /\ op_name' = "operator[](int)"
          /\ op_index' = index
    /\ op_arg' = EMPTY
    /\ ret_bool' = FALSE
    /\ ret_int' = 0
    /\ UNCHANGED <<argv, i, args, flags, parameters, positional_arguments,
                   double_dash_set, last_flag, scanned, marked>>

Size ==
    /\ Constructed
    /\ ret_int' = size(positional_arguments)
    /\ op_name' = "size"
    /\ op_arg' = EMPTY
    /\ op_index' = 0
    /\ ret_str' = EMPTY
    /\ ret_bool' = FALSE
    /\ UNCHANGED <<argv, i, args, flags, parameters, positional_arguments,
                   double_dash_set, last_flag, scanned, marked>>

Next ==
    \/ ParseArgument
    \/ MarkParameter
    \/ GetParameter
    \/ HasFlag
    \/ PositionalAt
    \/ Size

Spec == Init /\ [][Next]_vars

SpecEq == InitEq /\ [][Next]_vars

SpecTerm == InitTerm /\ [][Next]_vars

SpecPtr == InitPtr /\ [][Next]_vars

SpecCluster == InitCluster /\ [][Next]_vars

SpecDash == InitDash /\ [][Next]_vars

(***************************************************************************)
(* The input as the specification reads it, used to state the properties.  *)
(* These read argv alone and apply to inputs without the empty token, the  *)
(* single dash and the terminator.                                         *)
(***************************************************************************)
PlainInput ==
    \A k \in 1 .. Len(argv) : argv[k] \notin {EMPTY, <<"-">>, <<"-", "-">>}

IsOptionToken(tok) == Len(tok) >= 2 /\ tok[1] = "-" /\ tok # <<"-", "-">>

HasEq(tok) == \E k \in 1 .. Len(tok) : tok[k] = "="

IsBare(tok) == Len(tok) > 0 /\ ~IsOptionToken(tok)

IsJoined(tok) == IsOptionToken(tok) /\ HasEq(tok)

IsCluster(tok) ==
    IsOptionToken(tok) /\ ~HasEq(tok) /\ SubSeq(tok, 1, 2) # <<"-", "-">>

IsLong(tok) ==
    IsOptionToken(tok) /\ ~HasEq(tok) /\ SubSeq(tok, 1, 2) = <<"-", "-">>

\* Position of the first '=' of a joined token.
FirstEq(tok) ==
    CHOOSE k \in 1 .. Len(tok) :
        tok[k] = "=" /\ \A m \in 1 .. (k - 1) : tok[m] # "="

JoinedName(tok) == SubSeq(tok, 1, FirstEq(tok) - 1)

JoinedValue(tok) == SubSeq(tok, FirstEq(tok) + 1, Len(tok))

\* The option name a plain option token leaves awaiting a value.
Awaiting(tok) ==
    IF IsLong(tok) THEN tok ELSE <<"-", tok[Len(tok)]>>

\* Token j gives the name X a value.
Assigns(j, X) ==
    \/ IsJoined(argv[j]) /\ JoinedName(argv[j]) = X
    \/ /\ IsBare(argv[j])
       /\ j > 1
       /\ IsOptionToken(argv[j - 1])
       /\ ~HasEq(argv[j - 1])
       /\ Awaiting(argv[j - 1]) = X

AssignedValue(j) ==
    IF IsJoined(argv[j]) THEN JoinedValue(argv[j]) ELSE argv[j]

\* The value the input maps X to: that of the last token assigning it.
ExpectedValue(X) ==
    IF \E j \in 1 .. Len(argv) : Assigns(j, X)
    THEN LET last == CHOOSE j \in 1 .. Len(argv) :
                         Assigns(j, X)
                         /\ \A k \in (j + 1) .. Len(argv) : ~Assigns(k, X)
         IN AssignedValue(last)
    ELSE EMPTY

\* Index in the scan-time candidate sequence of the bare token argv[j].
CandidateIndex(j) == Cardinality({k \in 1 .. j : IsBare(argv[k])})

WithoutOwner(pos, X) == SelectSeq(pos, LAMBDA e : e.owner # X)

OwnedBy(pos, X) == {k \in 1 .. Len(pos) : pos[k].owner = X}

Values(pos) == [k \in 1 .. Len(pos) |-> pos[k].value]

\* What index lookup returns: operator[](0) .. operator[](size() - 1).
Lookup ==
    [k \in 1 .. size(positional_arguments) |->
        operator_index(positional_arguments, k - 1)]

MarkingCall == {"mark_parameter", "operator()"}

(***************************************************************************)
(* Marking.                                                                *)
(***************************************************************************)
\* C1: a mark_parameter(X) or operator()(X) call with an option name X
\* leaves the previous positional sequence with every entry owned by X
\* deleted, however many there are, and the rest in their order.
C1_MarkDeletesOwned ==
    [][(op_name' \in MarkingCall /\ IsOptionToken(op_arg'))
          => positional_arguments'
                 = WithoutOwner(positional_arguments, op_arg')]_vars

\* C1 witness: -o was marked after it owned two candidates, and index
\* lookup has lost both.
C1_Witness ==
    /\ op_name \in MarkingCall
    /\ op_arg = TokO
    /\ Cardinality(OwnedBy(scanned, TokO)) >= 2
    /\ Len(positional_arguments) = Len(scanned) - 2

\* C2: after construction, index lookup returns the scan-time candidates
\* that have no owner or whose owner was never passed to mark_parameter or
\* operator(), in scan order.
C2_LookupIsUnmarkedCandidates ==
    Constructed =>
        Lookup = Values(SelectSeq(scanned,
                     LAMBDA e : e.owner = EMPTY \/ e.owner \notin marked))

\* C3: once X was passed to mark_parameter or operator(), no later state
\* holds an entry owned by X, and no call after construction makes the
\* positional sequence longer.
C3_MarkingIsOneWay ==
    [][/\ \A X \in marked' : OwnedBy(positional_arguments', X) = {}
       /\ Constructed =>
              size(positional_arguments') <= size(positional_arguments)]_vars

\* C3 witness: size() is called after -o, which owned a candidate, was
\* marked, and reports fewer entries than the scan left.
C3_Witness ==
    /\ op_name = "size"
    /\ TokO \in marked
    /\ OwnedBy(scanned, TokO) # {}
    /\ ret_int < Len(scanned)

\* C4: operator()(X) leaves the positional sequence, the flag set and the
\* parameter map as mark_parameter(X) leaves them.
C4_GetMarksLikeMark ==
    [][op_name' = "operator()"
          => /\ positional_arguments'
                    = WithoutOwner(positional_arguments, op_arg')
             /\ flags' = flags
             /\ parameters' = parameters]_vars

\* C4 witness: operator() of a name without a value was called on an
\* object that holds a value for another name.
C4_Witness ==
    /\ op_name = "operator()"
    /\ op_arg \notin DOMAIN parameters
    /\ DOMAIN parameters # {}
    /\ OwnedBy(scanned, TokO) # {}

\* C5: while every name passed to mark_parameter or operator() is a name
\* that never appeared as an option or that owns no candidate (the empty
\* string among them), the positional sequence is the one the scan left.
C5_MarkUnknownNameIsNoOp ==
    (Constructed
        /\ \A N \in marked :
              N \notin flags \/ OwnedBy(scanned, N) = {})
        => positional_arguments = scanned

\* C6: a second mark_parameter(X) right after a first changes nothing.
C6_MarkIdempotent ==
    [][(op_name = "mark_parameter" /\ op_name' = "mark_parameter"
            /\ op_arg' = op_arg)
          => UNCHANGED <<positional_arguments, flags, parameters>>]_vars

\* C6 witness: mark_parameter("-o") was called on an object in which -o
\* owned two candidates next to each other.
C6_Witness ==
    /\ op_name = "mark_parameter"
    /\ op_arg = TokO
    /\ \E k \in OwnedBy(scanned, TokO) : (k + 1) \in OwnedBy(scanned, TokO)
    /\ OwnedBy(positional_arguments, TokO) = {}

(***************************************************************************)
(* Parameter values.                                                       *)
(***************************************************************************)
\* C7: operator()(X) returns the value the input maps X to, the bare token
\* that followed X or the text after '=' of the last such occurrence, and
\* the empty string when the input gives X no value.
C7_GetReturnsMappedValue ==
    (op_name = "operator()" /\ PlainInput) => ret_str = ExpectedValue(op_arg)

\* C7 witness: operator() returned a non-empty value for a name that the
\* input gives a value both with '=' and with a following bare token.
C7_Witness ==
    /\ op_name = "operator()"
    /\ ret_str # EMPTY
    /\ \E j, k \in 1 .. Len(argv) :
          /\ IsJoined(argv[j]) /\ Assigns(j, op_arg)
          /\ IsBare(argv[k]) /\ Assigns(k, op_arg)

\* C8: the bare token after a short cluster is owned by the cluster's last
\* letter and is that letter's value unless a later token gives it one; the
\* earlier letters get no value from this occurrence.
C8_ClusterLastLetterClaims ==
    (Constructed /\ PlainInput) =>
        \A j \in 1 .. (Len(argv) - 1) :
            (IsCluster(argv[j]) /\ IsBare(argv[j + 1])) =>
                LET last == <<"-", argv[j][Len(argv[j])]>>
                    e == scanned[CandidateIndex(j + 1)]
                IN /\ e.owner = last
                   /\ e.value = argv[j + 1]
                   /\ (\A k \in (j + 2) .. Len(argv) : ~Assigns(k, last))
                          => operator_param(parameters, last) = argv[j + 1]
                   /\ \A m \in 2 .. (Len(argv[j]) - 1) :
                          LET c == <<"-", argv[j][m]>>
                          IN c # last =>
                                /\ operator_param(parameters, c)
                                       = ExpectedValue(c)
                                /\ (\A k \in 1 .. Len(argv) : ~Assigns(k, c))
                                       => c \notin DOMAIN parameters

\* C8 witness: for the input t -vo a, operator()("-o") returned a.
C8_Witness ==
    /\ argv = <<TokTest, TokVO, TokA>>
    /\ op_name = "operator()"
    /\ op_arg = TokO
    /\ ret_str = TokA

\* C9: a joined option token name=value makes name a flag, does not make
\* the whole token a flag, and maps name to the text after the first '='
\* unless a later token gives name another value.
C9_JoinedOptionSplitsAtFirstEq ==
    (Constructed /\ PlainInput) =>
        \A j \in 1 .. Len(argv) :
            IsJoined(argv[j]) =>
                /\ operator_flag(flags, JoinedName(argv[j]))
                /\ ~operator_flag(flags, argv[j])
                /\ (\A k \in (j + 1) .. Len(argv) :
                        ~Assigns(k, JoinedName(argv[j])))
                       => operator_param(parameters, JoinedName(argv[j]))
                              = JoinedValue(argv[j])

\* C9 witness: the input holds -o=a=t and operator()("-o") returned a=t.
C9_Witness ==
    /\ \E j \in 1 .. Len(argv) : argv[j] = TokOEqAEqT
    /\ op_name = "operator()"
    /\ op_arg = TokO
    /\ ret_str = <<"a", "=", "t">>

\* C10: a joined option token adds no positional candidate and awaits no
\* value: the bare token after it is a candidate without owner, is not the
\* option's value, and stays in the positional sequence through every
\* mark_parameter or operator() call with an option name.
C10_JoinedOptionAwaitsNothing ==
    (Constructed /\ PlainInput) =>
        /\ Values(scanned) = SelectSeq(argv, IsBare)
        /\ \A j \in 1 .. (Len(argv) - 1) :
              (IsJoined(argv[j]) /\ IsBare(argv[j + 1])) =>
                  LET e == scanned[CandidateIndex(j + 1)]
                      name == JoinedName(argv[j])
                  IN /\ e.owner = EMPTY
                     /\ e.value = argv[j + 1]
                     /\ operator_param(parameters, name) = ExpectedValue(name)
                     /\ EMPTY \notin marked =>
                            SelectSeq(positional_arguments,
                                      LAMBDA x : x.owner = EMPTY)
                                = SelectSeq(scanned,
                                            LAMBDA x : x.owner = EMPTY)

\* C10 witness: for the input t --o=a t, operator()("--o") returned a and
\* the positional sequence is still t, t.
C10_Witness ==
    /\ argv = <<TokTest, TokOutEqA, TokTest>>
    /\ op_name = "operator()"
    /\ op_arg = TokOut
    /\ ret_str = TokA
    /\ Values(positional_arguments) = <<TokTest, TokTest>>

(***************************************************************************)
(* The terminator, the single dash and the empty token.                    *)
(***************************************************************************)
\* Position of the first "--" of av, 0 when there is none.
FirstTerminator(av) ==
    IF \E k \in 1 .. Len(av) : av[k] = TokDashDash
    THEN CHOOSE k \in 1 .. Len(av) :
             av[k] = TokDashDash
             /\ \A m \in 1 .. (k - 1) : av[m] # TokDashDash
    ELSE 0

NonEmpty(tok) == Len(tok) > 0

\* C11: with d the first "--", the scan leaves the flags, the parameters
\* and the candidates of the tokens before d, followed by one candidate
\* without owner for every non-empty token after d, verbatim; "--" itself
\* gives no candidate.
C11_TerminatorMakesRestPositional ==
    (Constructed /\ FirstTerminator(argv) # 0) =>
        LET d == FirstTerminator(argv)
            pre == Construct(SubSeq(argv, 1, d - 1))
            post == SelectSeq(SubSeq(argv, d + 1, Len(argv)), NonEmpty)
        IN /\ flags = pre.flags
           /\ parameters = pre.parameters
           /\ scanned = pre.positional_arguments
                  \o [k \in 1 .. Len(post) |->
                         [owner |-> EMPTY, value |-> post[k]]]

\* C11 witness: for the input t -- -o t, operator[]("-o") returned false
\* and the positional sequence is t, -o, t.
C11_Witness ==
    /\ argv = <<TokTest, TokDashDash, TokO, TokTest>>
    /\ op_name = "operator[](string)"
    /\ op_arg = TokO
    /\ ret_bool = FALSE
    /\ Values(positional_arguments) = <<TokTest, TokO, TokTest>>

\* C12: a "-" scanned before the terminator is a candidate without owner,
\* also right after an option awaiting a value, and it is not that
\* option's value.
C12_SingleDashHasNoOwner ==
    Constructed =>
        /\ \A k \in 1 .. Len(scanned) :
              scanned[k].value = TokDash => scanned[k].owner = EMPTY
        /\ \A X \in DOMAIN parameters :
              operator_param(parameters, X) # TokDash

(***************************************************************************)
(* The char *argv[] constructor.                                           *)
(***************************************************************************)
\* C13: construction from (argc, char *argv[]) classifies argv[0] like any
\* other token, as construction from a string array does, so that before
\* any marking operator[](0) returns a bare program name.
C13_ProgramNameIsPositionalZero ==
    (Constructed /\ marked = {}) =>
        /\ positional_arguments = Construct(argv).positional_arguments
        /\ (Len(argv) >= 1 /\ IsBare(argv[1]))
               => operator_index(positional_arguments, 0) = argv[1]

(***************************************************************************)
(* The positional sequence before any marking.                             *)
(***************************************************************************)
\* Token j of argv is a positional candidate: it is not empty, and it
\* comes after the first "--" or is neither an option nor "--".
IsCandidate(j) ==
    /\ argv[j] # EMPTY
    /\ \/ \E k \in 1 .. (j - 1) : argv[k] = TokDashDash
       \/ ~IsOptionToken(argv[j]) /\ argv[j] # TokDashDash

\* The candidates of argv[1 .. n] in input order.
RECURSIVE CandidatesUpTo(_)
CandidatesUpTo(n) ==
    IF n = 0 THEN << >>
    ELSE IF IsCandidate(n) THEN Append(CandidatesUpTo(n - 1), argv[n])
    ELSE CandidatesUpTo(n - 1)

\* C14: before any mark_parameter or operator() call the positional
\* sequence is the candidate tokens of the input in input order, the bare
\* tokens that are also an option's value among them, and size() is their
\* number.
C14_PositionalIsCandidatesBeforeMarking ==
    (Constructed /\ marked = {}) =>
        /\ Lookup = CandidatesUpTo(Len(argv))
        /\ size(positional_arguments)
               = Cardinality({j \in 1 .. Len(argv) : IsCandidate(j)})

\* C14 witness: size() returned 2 for the input -o t -- --, before any
\* marking: t, which is also the value of -o, and the "--" after the
\* terminator.
C14_Witness ==
    /\ argv = <<TokO, TokTest, TokDashDash, TokDashDash>>
    /\ marked = {}
    /\ op_name = "size"
    /\ ret_int = 2
    /\ operator_param(parameters, TokO) = TokTest

(***************************************************************************)
(* Lookups.                                                                *)
(***************************************************************************)
\* The values of the candidates whose owner was not marked, in scan order.
Pruned == Values(SelectSeq(scanned, LAMBDA e : e.owner \notin marked))

\* C15: operator[](i) returns entry i of the current, pruned positional
\* sequence when 0 <= i < size(), the empty string for every other i,
\* negative i and i = size() among them, and changes nothing.
C15_PositionalAtIsTotal ==
    [][op_name' = "operator[](int)"
          => /\ ret_str' = IF 0 <= op_index' /\ op_index' < Len(Pruned)
                           THEN Pruned[op_index' + 1]
                           ELSE EMPTY
             /\ UNCHANGED <<positional_arguments, flags, parameters>>]_vars

\* C15 witness: after a marking removed a candidate, operator[] was called
\* with i = size() on a non-empty sequence and returned the empty string.
C15_Witness ==
    /\ op_name = "operator[](int)"
    /\ op_index = size(positional_arguments)
    /\ op_index >= 1
    /\ Len(positional_arguments) < Len(scanned)
    /\ ret_str = EMPTY

PureCall == {"operator[](string)", "operator[](int)", "size"}

\* C16: operator[](string), operator[](int) and size() change neither the
\* flags nor the parameters nor the positional sequence and return the
\* same result when repeated; so while nothing was marked, the positional
\* sequence is the one the scan left, owned candidates at their indexes.
C16_LookupsArePure ==
    [][/\ op_name' \in PureCall =>
              /\ UNCHANGED <<flags, parameters, positional_arguments>>
              /\ (op_name = op_name' /\ op_arg = op_arg'
                      /\ op_index = op_index')
                     => /\ ret_str' = ret_str
                        /\ ret_bool' = ret_bool
                        /\ ret_int' = ret_int
       /\ marked' = {} => positional_arguments' = scanned']_vars

\* C16 witness: operator[](string) was called, nothing was marked, and a
\* candidate owned by -o is still at index 1.
C16_Witness ==
    /\ op_name = "operator[](string)"
    /\ marked = {}
    /\ Len(positional_arguments) >= 2
    /\ positional_arguments[2].owner = TokO
    /\ operator_index(positional_arguments, 1) = TokTest

(***************************************************************************)
(* Clusters.                                                               *)
(***************************************************************************)
\* The separate tokens -c1, -c2, ... of the cluster -c1c2...
Letters(tok) == [m \in 1 .. (Len(tok) - 1) |-> <<"-", tok[m + 1]>>]

\* av with every cluster token replaced by its separate tokens.
RECURSIVE ExpandClusters(_)
ExpandClusters(av) ==
    IF av = << >> THEN << >>
    ELSE (IF IsCluster(Head(av)) THEN Letters(Head(av)) ELSE <<Head(av)>>)
             \o ExpandClusters(Tail(av))

\* No character after the leading dash is a dash.
DashFree(tok) == \A m \in 2 .. Len(tok) : tok[m] # "-"

\* av with every cluster token without a dash among its characters
\* replaced by its separate tokens.
RECURSIVE ExpandDashFree(_)
ExpandDashFree(av) ==
    IF av = << >> THEN << >>
    ELSE (IF IsCluster(Head(av)) /\ DashFree(Head(av))
          THEN Letters(Head(av)) ELSE <<Head(av)>>)
             \o ExpandDashFree(Tail(av))

\* C17 as stated: flag queries give the same results for an input and for
\* the input with every cluster token replaced by its separate tokens.
C17_EveryClusterIsSeparateFlags ==
    Constructed => flags = Construct(ExpandClusters(argv)).flags

\* C17: flag queries give the same results for an input and for the input
\* with every cluster whose characters are not dashes replaced by its
\* separate letters: each letter of a cluster is a flag, a repeated letter
\* is one flag, no other name changes.
C17_ClusterIsSeparateFlags ==
    Constructed =>
        /\ flags = Construct(ExpandDashFree(argv)).flags
        /\ \A j \in 1 .. Len(argv) :
              IsCluster(argv[j]) =>
                  \A m \in 2 .. Len(argv[j]) :
                      operator_flag(flags, <<"-", argv[j][m]>>)

\* C17 witness: for the input -ovo alone the flags are -o and -v, and
\* operator[]("-o") returned true.
C17_Witness ==
    /\ argv = <<TokOVO>>
    /\ flags = {TokO, TokV}
    /\ op_name = "operator[](string)"
    /\ op_arg = TokO
    /\ ret_bool = TRUE

(***************************************************************************)
(* Repeated options.                                                       *)
(***************************************************************************)
\* The tokens of argv that give the name X a value.
AssignersOf(X) == {j \in 1 .. Len(argv) : Assigns(j, X)}

\* The option names the tokens of argv spell: the name of a joined token,
\* the name a plain option token leaves awaiting a value.
OptionNames ==
    {JoinedName(argv[j]) : j \in {k \in 1 .. Len(argv) : IsJoined(argv[k])}}
        \cup {Awaiting(argv[j]) :
                 j \in {k \in 1 .. Len(argv) :
                           IsOptionToken(argv[k]) /\ ~HasEq(argv[k])}}

\* C18: when the input gives a name a value more than once, by '=' or by
\* a following bare token in any mix, the parameter map holds the value
\* of the last occurrence.
C18_LastWriteWins ==
    (Constructed /\ PlainInput) =>
        \A X \in OptionNames :
            \A j \in AssignersOf(X) :
                (\A k \in AssignersOf(X) : k <= j)
                    => /\ X \in DOMAIN parameters
                       /\ parameters[X] = AssignedValue(j)

\* C18 witness: for the input --o t --o=a, operator()("--o") returned a,
\* the later of two different values.
C18_Witness ==
    /\ argv = <<TokOut, TokTest, TokOutEqA>>
    /\ op_name = "operator()"
    /\ op_arg = TokOut
    /\ ret_str = TokA

(***************************************************************************)
(* Empty tokens.                                                           *)
(***************************************************************************)
\* C19: the object built from an input and the object built from the
\* input without its empty tokens hold the same flags, the same parameters
\* and, after the same marking calls, the same positional sequence; an
\* option still claims the bare token that follows it after empty tokens.
C19_EmptyTokensAreSkipped ==
    Constructed =>
        LET o == Construct(SelectSeq(argv, NonEmpty))
        IN /\ flags = o.flags
           /\ parameters = o.parameters
           /\ scanned = o.positional_arguments
           /\ positional_arguments
                  = SelectSeq(o.positional_arguments,
                              LAMBDA e : e.owner \notin marked)

\* C19 witness: for the input -o "" t, operator()("-o") returned t.
C19_Witness ==
    /\ argv = <<TokO, EMPTY, TokTest>>
    /\ op_name = "operator()"
    /\ op_arg = TokO
    /\ ret_str = TokTest
    /\ positional_arguments = << >>

(***************************************************************************)
(* One value per option occurrence.                                        *)
(***************************************************************************)
\* Option tokens of the input that leave X as the most recent option.
SettersOf(X) ==
    {j \in 1 .. Len(argv) :
        IsOptionToken(argv[j]) /\ ~HasEq(argv[j]) /\ Awaiting(argv[j]) = X}

\* Positions j of the input where an option awaiting a value is followed
\* by two bare tokens.
OptionThenTwoBare ==
    {j \in 1 .. (Len(argv) - 2) :
        /\ IsOptionToken(argv[j]) /\ ~HasEq(argv[j])
        /\ IsBare(argv[j + 1])
        /\ IsBare(argv[j + 2])}

Unowned(pos) == SelectSeq(pos, LAMBDA e : e.owner = EMPTY)

\* C20: in X a b, with X an option awaiting a value and a, b bare tokens, a
\* is owned by X and b has no owner; marking option names leaves the
\* candidates without owner in the positional sequence, and operator()(X)
\* returns a when no later token gives X a value. The candidates owned by a
\* name are never more than the option tokens that set that name as most
\* recent option.
C20_OptionClaimsAtMostOne ==
    (Constructed /\ PlainInput) =>
        /\ \A j \in OptionThenTwoBare :
               /\ scanned[CandidateIndex(j + 1)] =
                      Owned(Awaiting(argv[j]), argv[j + 1])
               /\ scanned[CandidateIndex(j + 2)] = NoOwner(argv[j + 2])
               /\ (/\ op_name = "operator()"
                   /\ op_arg = Awaiting(argv[j])
                   /\ \A k \in AssignersOf(op_arg) : k <= j + 1)
                      => ret_str = argv[j + 1]
        /\ EMPTY \notin marked =>
               Unowned(positional_arguments) = Unowned(scanned)
        /\ \A X \in {scanned[k].owner : k \in 1 .. Len(scanned)} \ {EMPTY} :
               Cardinality(OwnedBy(scanned, X)) <= Cardinality(SettersOf(X))

\* C20 witness: for the input -o a t, operator()("-o") returned a and t is
\* what remains of the positional sequence.
C20_Witness ==
    /\ argv = <<TokO, TokA, TokTest>>
    /\ op_name = "operator()"
    /\ op_arg = TokO
    /\ ret_str = TokA
    /\ positional_arguments = <<NoOwner(TokTest)>>

(***************************************************************************)
(* Options anywhere.                                                       *)
(***************************************************************************)
\* Positions j where an option awaiting a value, its value token and a
\* bare token that stays without owner when it is moved before the option
\* follow each other.
OptionValueThenBare ==
    {j \in OptionThenTwoBare :
        j = 1 \/ IsBare(argv[j - 1]) \/ IsJoined(argv[j - 1])}

\* The input with the bare token at j + 2 moved before the option at j.
BareBeforeOption(j) ==
    [k \in 1 .. Len(argv) |->
        IF k = j THEN argv[j + 2]
        ELSE IF k = j + 1 THEN argv[j]
        ELSE IF k = j + 2 THEN argv[j + 1]
        ELSE argv[k]]

\* C21: an input X a b, with a the value token of the option X and b a
\* positional token without owner, and the input b X a give the same
\* operator[](string) and operator() results for every name, and the same
\* positional sequence once X was marked or read with operator().
C21_OptionsMayAppearAnywhere ==
    (Constructed /\ PlainInput) =>
        \A j \in OptionValueThenBare :
            LET X == Awaiting(argv[j])
                o == Construct(BareBeforeOption(j))
            IN /\ \A N \in Names \cup {X} :
                      /\ operator_flag(flags, N) = operator_flag(o.flags, N)
                      /\ operator_param(parameters, N)
                             = operator_param(o.parameters, N)
               /\ mark_parameter(scanned, X)
                      = mark_parameter(o.positional_arguments, X)
               /\ X \in marked =>
                      positional_arguments =
                          SelectSeq(o.positional_arguments,
                                    LAMBDA e : e.owner \notin marked)

\* C21 witness: for the input -o a t, -o was marked and operator[](0)
\* returned t, as it does for t -o a.
C21_Witness ==
    /\ argv = <<TokO, TokA, TokTest>>
    /\ marked = {TokO}
    /\ op_name = "operator[](int)"
    /\ op_index = 0
    /\ ret_str = TokTest

(***************************************************************************)
(* What marking leaves alone.                                              *)
(***************************************************************************)
\* The entries that have no owner or an owner other than X.
NotOwnedBy(pos, X) ==
    SelectSeq(pos, LAMBDA e : e.owner = EMPTY \/ e.owner # X)

\* C22: a mark_parameter(X) or operator()(X) call keeps every positional
\* entry that has another owner or no owner, with its value and in its
\* order, and leaves the flag set and the parameter map as they were;
\* operator() of a name without value adds no key.
C22_MarkChangesOnlyOwned ==
    [][op_name' \in MarkingCall
          => /\ NotOwnedBy(positional_arguments', op_arg')
                    = NotOwnedBy(positional_arguments, op_arg')
             /\ flags' = flags
             /\ parameters' = parameters]_vars

(***************************************************************************)
(* An option followed by an option.                                        *)
(***************************************************************************)
\* Positions j where an option awaiting a value is followed by another
\* option token.
OptionThenOption ==
    {j \in 1 .. (Len(argv) - 1) :
        /\ IsOptionToken(argv[j]) /\ ~HasEq(argv[j])
        /\ IsOptionToken(argv[j + 1])}

\* C23: an option followed at once by another option token gets no value
\* from that occurrence: operator() of it returns the empty string when no
\* other token gives it a value, the bare token after the later option is
\* owned by the later option alone, and it stays in the positional sequence
\* until the later option is marked.
C23_OptionBeforeOptionGetsNoValue ==
    (Constructed /\ PlainInput) =>
        \A j \in OptionThenOption :
            LET E == Awaiting(argv[j])
            IN /\ AssignersOf(E) = {} =>
                      /\ E \notin DOMAIN parameters
                      /\ (op_name = "operator()" /\ op_arg = E)
                             => ret_str = EMPTY
               /\ (/\ j + 2 <= Len(argv)
                   /\ ~HasEq(argv[j + 1])
                   /\ IsBare(argv[j + 2])) =>
                      LET L == Awaiting(argv[j + 1])
                          x == Owned(L, argv[j + 2])
                      IN /\ scanned[CandidateIndex(j + 2)] = x
                         /\ L \notin marked =>
                                SelectSeq(positional_arguments,
                                          LAMBDA e : e.owner = L)
                                    = SelectSeq(scanned,
                                                LAMBDA e : e.owner = L)

\* C23 witness: for the input --o -o t, operator()("--o") returned the
\* empty string and t, owned by -o, is still positional.
C23_Witness ==
    /\ argv = <<TokOut, TokO, TokTest>>
    /\ op_name = "operator()"
    /\ op_arg = TokOut
    /\ ret_str = EMPTY
    /\ positional_arguments = <<Owned(TokO, TokTest)>>

(***************************************************************************)
(* Later terminators.                                                      *)
(***************************************************************************)
\* Positions among the tokens scanned so far that hold a "--" after the
\* first one.
LaterTerminators ==
    {j \in 1 .. (i - 1) :
        /\ argv[j] = TokDashDash
        /\ \E k \in 1 .. (j - 1) : argv[k] = TokDashDash}

\* C24: at every point of the scan and after it, double_dash_set is set
\* exactly when a "--" was scanned, every "--" after the first is a
\* candidate with the value "--" and no owner, and the first is none, so
\* that the number of such candidates is the number of later terminators.
C24_OnlyFirstTerminatorTerminates ==
    /\ double_dash_set = (\E k \in 1 .. (i - 1) : argv[k] = TokDashDash)
    /\ \A j \in LaterTerminators :
           /\ Len(CandidatesUpTo(j)) <= Len(scanned)
           /\ scanned[Len(CandidatesUpTo(j))] = NoOwner(TokDashDash)
    /\ Cardinality({k \in 1 .. Len(scanned) :
                       scanned[k].value = TokDashDash})
           = Cardinality(LaterTerminators)

\* C24 witness: for the input -- -o --, operator[](1) returned "--" and two
\* candidates are held.
C24_Witness ==
    /\ argv = <<TokDashDash, TokO, TokDashDash>>
    /\ double_dash_set
    /\ op_name = "operator[](int)"
    /\ op_index = 1
    /\ ret_str = TokDashDash
    /\ positional_arguments = <<NoOwner(TokO), NoOwner(TokDashDash)>>

(***************************************************************************)
(* Parameter values under marking.                                         *)
(***************************************************************************)
\* C25: whatever mark_parameter and operator() calls were made, the
\* parameter map is the one the scan of the input left, and operator()(X)
\* returns the value that map holds for X: the same string before and
\* after mark_parameter(X) and on every repeated call.
C25_MarkingKeepsParameterValues ==
    Constructed =>
        LET o == Construct(argv)
        IN /\ parameters = o.parameters
           /\ op_name = "operator()" =>
                  ret_str = operator_param(o.parameters, op_arg)

\* C25 witness: operator()("-o") returned t for the input -o t --o=a after
\* both --o and -o had been marked and the positional sequence was empty.
C25_Witness ==
    /\ argv = <<TokO, TokTest, TokOutEqA>>
    /\ marked = {TokO, TokOut}
    /\ op_name = "operator()"
    /\ op_arg = TokO
    /\ ret_str = TokTest
    /\ positional_arguments = << >>

(***************************************************************************)
(* Marking matches owners, not values.                                     *)
(***************************************************************************)
\* C26: whatever names were passed to mark_parameter and operator(), the
\* candidates without owner are all still in the positional sequence, in
\* their order, those whose value is a marked name and those scanned after
\* the terminator among them.
C26_UnownedIsNeverRemoved ==
    Constructed => Unowned(positional_arguments) = Unowned(scanned)

(***************************************************************************)
(* Bare tokens that are lost.                                              *)
(***************************************************************************)
\* The candidate is an entry of the positional sequence.
Live(e) ==
    \E k \in 1 .. Len(positional_arguments) : positional_arguments[k] = e

BareTokens == {j \in 1 .. Len(argv) : IsBare(argv[j])}

Owners(pos) == {pos[k].owner : k \in 1 .. Len(pos)} \ {EMPTY}

\* C28: in every state, every key of the parameter map is in the flag set,
\* so operator[](X) is true whenever operator()(X) returns a non-empty
\* string, and the owner of every owned candidate is in the flag set.
C28_ParametersAreFlags ==
    /\ \A X \in DOMAIN parameters : operator_flag(flags, X)
    /\ \A X \in Names :
           operator_param(parameters, X) # EMPTY => operator_flag(flags, X)
    /\ (op_name = "operator()" /\ ret_str # EMPTY)
           => operator_flag(flags, op_arg)
    /\ Owners(scanned) \subseteq flags
    /\ Owners(positional_arguments) \subseteq flags

\* C28 witness: for the input --o=a -o t, operator[]("--o") returned true
\* while --o and -o have values and -o owns a candidate.
C28_Witness ==
    /\ argv = <<TokOutEqA, TokO, TokTest>>
    /\ op_name = "operator[](string)"
    /\ op_arg = TokOut
    /\ ret_bool
    /\ DOMAIN parameters = {TokOut, TokO}
    /\ Owners(positional_arguments) = {TokO}

(***************************************************************************)
(* Termination of mark_parameter.                                          *)
(***************************************************************************)
\* C29: in every state and for every name, mark_parameter comes to an end
\* after as many activations as the name owns entries, plus one; every
\* activation but the last erases one entry owned by the name, so the
\* activations are at most the length of the positional sequence plus one
\* and the result is shorter by their number less one.
C29_MarkParameterTerminates ==
    \A N \in Names :
        LET pos == positional_arguments
            calls == mark_parameter_calls(pos, N)
        IN /\ calls = Cardinality(OwnedBy(pos, N)) + 1
           /\ calls <= Len(pos) + 1
           /\ Len(mark_parameter(pos, N)) = Len(pos) - (calls - 1)
           /\ OwnedBy(mark_parameter(pos, N), N) = {}
           /\ FirstOwned(pos, N) # 0 =>
                  /\ pos[FirstOwned(pos, N)].owner = N
                  /\ Len(Erase(pos, FirstOwned(pos, N))) = Len(pos) - 1

\* C29 witness: mark_parameter("-o") was called for the input -o t -o a,
\* where it makes three activations, and left nothing.
C29_Witness ==
    /\ argv = <<TokO, TokTest, TokO, TokA>>
    /\ op_name = "mark_parameter"
    /\ op_arg = TokO
    /\ mark_parameter_calls(scanned, TokO) = 3
    /\ positional_arguments = << >>

(***************************************************************************)
(* Tokens that look like the terminator.                                   *)
(***************************************************************************)
\* Positions scanned so far that no "--" precedes and that hold no "--".
BeforeTerminator ==
    {j \in 1 .. (i - 1) : \A k \in 1 .. j : argv[k] # TokDashDash}

\* C30: at every point of the scan and after it, double_dash_set is set
\* exactly when a token equal to "--" was scanned; before such a token,
\* --=t records the flag -- with a value, --- records the flag ---, the
\* cluster -v- records the flags -v and --, none of them is a candidate,
\* and the tokens after them are still classified: the candidates are the
\* bare tokens before the first "--" and every token after it.
C30_OnlyExactDoubleDashTerminates ==
    /\ double_dash_set = (\E k \in 1 .. (i - 1) : argv[k] = TokDashDash)
    /\ \A j \in BeforeTerminator :
           /\ argv[j] = TokDashDashEqT =>
                  /\ operator_flag(flags, TokDashDash)
                  /\ TokDashDash \in DOMAIN parameters
           /\ argv[j] = TokDashDashDash =>
                  operator_flag(flags, TokDashDashDash)
           /\ argv[j] = TokVDash =>
                  /\ operator_flag(flags, TokV)
                  /\ operator_flag(flags, TokDashDash)
           /\ argv[j] = TokO => operator_flag(flags, TokO)
    /\ Values(scanned) = CandidatesUpTo(i - 1)

\* C30 witness: for the input --- -v- -o, operator[]("-o") returned true,
\* double_dash_set is not set and there is no candidate.
C30_Witness ==
    /\ argv = <<TokDashDashDash, TokVDash, TokO>>
    /\ ~double_dash_set
    /\ op_name = "operator[](string)"
    /\ op_arg = TokO
    /\ ret_bool
    /\ flags = {TokDashDashDash, TokV, TokDashDash, TokO}
    /\ scanned = << >>

=============================================================================
